---- MODULE Spec2Model ----
(***************************************************************************)
(* BlossomHub: order processing (controllers/ordersController.js) and the  *)
(* user/profile handlers (controllers/userController.js).                  *)
(*                                                                         *)
(* Every handler is an async function: it runs without interruption up to  *)
(* an await on the database and may be interleaved with other requests     *)
(* there.  One model step is therefore one database operation together     *)
(* with the synchronous code around it.  Database calls are assumed to     *)
(* answer (no connection failures).                                        *)
(***************************************************************************)
EXTENDS Integers, Sequences, FiniteSets, TLC

(* ---- bounds of the model ---- *)
MaxItems == 2      \* longest item list of a request body
MaxQty == 2        \* largest quantity of a request item
MaxPrice == 2      \* largest catalog price
MaxCalls == 2      \* createOrder requests the model admits (each may yield one order)
MaxClock == 2      \* largest value of the clock
MaxUpdates == 1    \* updateUser requests between lookup and write at the same time
MaxDeletes == 2    \* deleteUser requests between lookup and deleteOne at the same time
MaxLogins == 2
MaxCategories == 2   \* categories ever created
MaxWish == 2         \* wishlist requests in flight
MaxVersion == 2      \* saves of one wishlist document before requests stop     \* login callbacks the model admits (each may create one account)

(* ---- value sets ---- *)
FlowerIds == {"f1", "fx"}          \* "fx" never has a catalog entry
Prices == 1..MaxPrice
Quantities == 0..MaxQty
OrderIds == 1..MaxCalls
Calls == 1..MaxCalls
UserRefs == {"a2"}                 \* req.body.user: the _id of the ordering account
Addresses == {"addr"}
NoStatus == "undefined"            \* req.body.status absent

VARIABLES
  catalog,   \* Flower collection: id -> [exists, price]
  orders,    \* Order collection: id -> document
  nextId,    \* next fresh order id
  calls,     \* createOrder requests: position and local variables
  resp,      \* the response most recently sent by a single-step handler
  now,       \* Date.now()
  origin,    \* history: for each stored order, the request that created it
  users,     \* User collection: _id -> document
  ucalls,    \* updateUser requests: position and local variables
  uresp,     \* the response most recently sent by a user handler
  dcalls,    \* deleteUser requests: position and local variables
  lcalls,    \* createUser calls of the login callback: position and local variables
  categories, \* Category collection: _id -> document
  nextCat,   \* next fresh category _id
  cresp,     \* the response most recently sent by a category handler
  wishlists, \* Wishlist collection: _id -> document
  wcalls,    \* wishlist requests: position and local variables
  wresp      \* the response most recently sent by a wishlist handler

vars ==
  <<catalog, orders, nextId, calls, resp, now, origin, users, ucalls, uresp, dcalls, lcalls,
    categories, nextCat, cresp, wishlists, wcalls, wresp>>
orderVars == <<catalog, orders, nextId, calls, resp, origin>>
userVars == <<users, ucalls, uresp, dcalls, lcalls>>
categoryVars == <<categories, nextCat, cresp>>
wishlistVars == <<wishlists, wcalls, wresp>>
shopVars == <<categoryVars, wishlistVars>>

(* ------------------------------------------------------------------ *)
(* Request bodies                                                      *)
(* ------------------------------------------------------------------ *)
ItemInputs ==
  [flower : {"f1"}, quantity : Quantities] \cup [flower : {"fx"}, quantity : {1}]

RECURSIVE SeqsUpTo(_, _)
SeqsUpTo(S, n) ==
  IF n = 0 THEN {<<>>}
  ELSE LET shorter == SeqsUpTo(S, n - 1)
       IN  shorter \cup {Append(s, x) : s \in {t \in shorter : Len(t) = n - 1}, x \in S}

ItemLists == SeqsUpTo(ItemInputs, MaxItems)

\* POST /orders bodies; status is what a client may add to the body.
OrderBodies(lists, statuses) ==
  [user : UserRefs, items : lists, shippingAddress : Addresses, status : statuses]

(* ------------------------------------------------------------------ *)
(* Collaborators                                                       *)
(* ------------------------------------------------------------------ *)
\* Flower.findById: the set holding the document, or {} for null.
FlowerFindById(cat, id) ==
  IF cat[id].exists THEN {[_id |-> id, price |-> cat[id].price]} ELSE {}

\* Order schema defaults applied by new Order(doc): status, createdAt, updatedAt.
OrderDefaults(doc, t) ==
  [user |-> doc.user, items |-> doc.items, totalAmount |-> doc.totalAmount,
   shippingAddress |-> doc.shippingAddress,
   status |-> IF "status" \in DOMAIN doc THEN doc.status ELSE "pending",
   createdAt |-> t, updatedAt |-> t]

(* ------------------------------------------------------------------ *)
(* createOrder                                                         *)
(* ------------------------------------------------------------------ *)
IdleCall ==
  [pc |-> "idle", body |-> <<>>, i |-> 0, orderItems |-> <<>>, totalAmount |-> 0,
   reads |-> <<>>, outcome |-> "none", id |-> 0]

\* The handler has responded: its local variables are gone; i stays as the
\* record of how far the loop came.
Finished(call, outcome, id) ==
  [IdleCall EXCEPT !.pc = "done", !.i = call.i, !.outcome = outcome, !.id = id]

itemTotalNoQuantity(priceAtPurchase, quantity) == priceAtPurchase

\* const itemTotal = priceAtPurchase * item.quantity
itemTotal(priceAtPurchase, quantity) == priceAtPurchase * quantity

PriceItemPrepend(call, flower) ==
  LET item == call.body.items[call.i]
      priceAtPurchase == flower.price
  IN  [call EXCEPT !.totalAmount = @ + itemTotal(priceAtPurchase, item.quantity),
                   !.orderItems = <<[flower |-> flower._id,
                                     quantity |-> item.quantity,
                                     priceAtPurchase |-> priceAtPurchase]>> \o @,
                   !.i = @ + 1]

PriceItem(call, flower) ==
  LET item == call.body.items[call.i]
      priceAtPurchase == flower.price
  IN  [call EXCEPT !.totalAmount = @ + itemTotal(priceAtPurchase, item.quantity),
                   !.orderItems = Append(@, [flower |-> flower._id,
                                             quantity |-> item.quantity,
                                             priceAtPurchase |-> priceAtPurchase]),
                   !.i = @ + 1]

loopBodySkipMissing(call, found) ==
  IF found = {} THEN [call EXCEPT !.i = @ + 1]
  ELSE PriceItem(call, CHOOSE f \in found : TRUE)

\* One iteration of `for (const item of items)` given the result of the
\* lookup: either next(error) with statusCode 400, or the item is priced.
loopBody(call, found) ==
  IF found = {} THEN Finished(call, "ProductNotFound", 0)
  ELSE PriceItem(call, CHOOSE f \in found : TRUE)

loopDoneAfterFirst(call) == call.i > 1 \/ call.i > Len(call.body.items)

\* the for-of loop has consumed every item
loopDone(call) == call.i > Len(call.body.items)

newOrderDocSpread(call) ==
  IF call.body.status = NoStatus
  THEN [user |-> call.body.user, items |-> call.orderItems,
        totalAmount |-> call.totalAmount, shippingAddress |-> call.body.shippingAddress]
  ELSE [user |-> call.body.user, items |-> call.orderItems,
        totalAmount |-> call.totalAmount, shippingAddress |-> call.body.shippingAddress,
        status |-> call.body.status]

\* new Order({ user, items: orderItems, totalAmount, shippingAddress })
newOrderDoc(call) ==
  [user |-> call.body.user, items |-> call.orderItems,
   totalAmount |-> call.totalAmount, shippingAddress |-> call.body.shippingAddress]

\* The request arrives: destructure the body, totalAmount = 0, orderItems = [].
createOrderStart(c, body) ==
  /\ calls[c].pc = "idle"
  /\ \A d \in Calls : d < c => calls[d].pc # "idle"    \* requests numbered by arrival
  /\ calls' = [calls EXCEPT ![c] = [IdleCall EXCEPT !.pc = "loop", !.body = body, !.i = 1]]
  /\ UNCHANGED <<catalog, orders, nextId, resp, now, origin, userVars, shopVars>>

\* await Flower.findById(item.flower) and the rest of the iteration.
createOrderLookup(c) ==
  /\ calls[c].pc = "loop"
  /\ ~loopDone(calls[c])
  /\ LET found == FlowerFindById(catalog, calls[c].body.items[calls[c].i].flower)
         after == loopBody(calls[c], found)
     IN  calls' = [calls EXCEPT ![c] =
                     IF after.pc = "loop"
                     THEN [after EXCEPT !.reads = Append(calls[c].reads, found)]
                     ELSE after]
  /\ UNCHANGED <<catalog, orders, nextId, resp, now, origin, userVars, shopVars>>

\* The document is inserted in one write and the handler answers 201.
InsertOrder(c, doc) ==
  /\ orders' = orders @@ (nextId :> OrderDefaults(doc, now))
  /\ origin' = origin @@ (nextId :> [body |-> calls[c].body, reads |-> calls[c].reads])
  /\ nextId' = nextId + 1
  /\ calls' = [calls EXCEPT ![c] = Finished(calls[c], "ok", nextId)]
  /\ UNCHANGED <<catalog, resp, now, userVars, shopVars>>

createOrderSaveReread(c) ==
  /\ calls[c].pc = "loop"
  /\ loopDone(calls[c])
  /\ LET doc == newOrderDoc(calls[c])
         fresh == [k \in DOMAIN doc.items |->
                     [doc.items[k] EXCEPT !.priceAtPurchase = catalog[doc.items[k].flower].price]]
     IN  InsertOrder(c, [doc EXCEPT !.items = fresh])

\* await newOrder.save(); res.status(201)
createOrderSave(c) ==
  /\ calls[c].pc = "loop"
  /\ loopDone(calls[c])
  /\ InsertOrder(c, newOrderDoc(calls[c]))

(* ------------------------------------------------------------------ *)
(* updateOrderStatus, deleteOrder                                      *)
(* ------------------------------------------------------------------ *)
validStatusesLoose ==
  {"pending", "processing", "shipped", "delivered", "cancelled", "refunded"}

\* const validStatuses = [...]
validStatuses == {"pending", "processing", "shipped", "delivered", "cancelled"}

\* prev: the status the order had before the request (history), or NoStatus.
Respond(op, id, status, outcome, data) ==
  resp' = [op |-> op, id |-> id, status |-> status, outcome |-> outcome, data |-> data,
           prev |-> IF id \in DOMAIN orders THEN orders[id].status ELSE NoStatus]

\* Order.findByIdAndUpdate(id, { status, updatedAt: Date.now() }, { new: true })
statusUpdateOverwrite(order, status, t) ==
  [order EXCEPT !.status = status, !.updatedAt = t, !.createdAt = t]

statusUpdateForwardOnly(order, status, t) ==
  IF order.status = "delivered" THEN order
  ELSE [order EXCEPT !.status = status, !.updatedAt = t]

statusUpdateReplace(order, status, t) ==
  [order EXCEPT !.status = status, !.updatedAt = t, !.items = <<>>, !.totalAmount = 0]

statusUpdate(order, status, t) == [order EXCEPT !.status = status, !.updatedAt = t]

updateOrderStatusLoadFirst(id, status) ==
  /\ IF id \notin DOMAIN orders
     THEN /\ Respond("updateOrderStatus", id, status, "NotFound", {})
          /\ UNCHANGED orders
     ELSE IF status \notin validStatuses
     THEN /\ Respond("updateOrderStatus", id, status, "InvalidStatus", {})
          /\ UNCHANGED orders
     ELSE /\ orders' = [orders EXCEPT ![id] = statusUpdate(orders[id], status, now)]
          /\ Respond("updateOrderStatus", id, status, "ok", {orders'[id]})
  /\ UNCHANGED <<catalog, nextId, calls, now, origin, userVars, shopVars>>

updateOrderStatusUpsert(id, status) ==
  /\ IF status \notin validStatuses
     THEN /\ Respond("updateOrderStatus", id, status, "InvalidStatus", {})
          /\ UNCHANGED orders
     ELSE IF id \in DOMAIN orders
     THEN /\ orders' = [orders EXCEPT ![id] = statusUpdate(orders[id], status, now)]
          /\ Respond("updateOrderStatus", id, status, "ok", {orders'[id]})
     ELSE /\ orders' = orders @@ (id :> [status |-> status, updatedAt |-> now])
          /\ Respond("updateOrderStatus", id, status, "ok", {orders'[id]})
  /\ UNCHANGED <<catalog, nextId, calls, now, origin, userVars, shopVars>>

updateOrderStatus(id, status) ==
  /\ IF status \notin validStatuses
     THEN /\ Respond("updateOrderStatus", id, status, "InvalidStatus", {})
          /\ UNCHANGED orders
     ELSE IF id \in DOMAIN orders
     THEN /\ orders' = [orders EXCEPT ![id] = statusUpdate(orders[id], status, now)]
          /\ Respond("updateOrderStatus", id, status, "ok", {orders'[id]})
     ELSE /\ Respond("updateOrderStatus", id, status, "NotFound", {})
          /\ UNCHANGED orders
  /\ UNCHANGED <<catalog, nextId, calls, now, origin, userVars, shopVars>>

deleteOrderAnswersOk(id) ==
  /\ IF id \in DOMAIN orders
     THEN /\ orders' = [k \in DOMAIN orders \ {id} |-> orders[k]]
          /\ origin' = [k \in DOMAIN origin \ {id} |-> origin[k]]
     ELSE UNCHANGED <<orders, origin>>
  /\ Respond("deleteOrder", id, NoStatus, "ok", {})
  /\ UNCHANGED <<catalog, nextId, calls, now, userVars, shopVars>>

\* Order.findByIdAndDelete(id)
deleteOrder(id) ==
  /\ IF id \in DOMAIN orders
     THEN /\ orders' = [k \in DOMAIN orders \ {id} |-> orders[k]]
          /\ origin' = [k \in DOMAIN origin \ {id} |-> origin[k]]
          /\ Respond("deleteOrder", id, NoStatus, "ok", {})
     ELSE /\ Respond("deleteOrder", id, NoStatus, "NotFound", {})
          /\ UNCHANGED <<orders, origin>>
  /\ UNCHANGED <<catalog, nextId, calls, now, userVars, shopVars>>

(* ------------------------------------------------------------------ *)
(* Users: getUserById, updateUser                                      *)
(* ------------------------------------------------------------------ *)
AccountIds == {"a1", "a2"}              \* _id of the stored accounts
ParamIds == AccountIds \cup {"a3", "me"} \* req.params.id; "a3" has no account
Roles == {"admin", "customer"}

\* req.user as the session supplies it: {} when there is no session.
Principals == {{}} \cup {{[id |-> a, role |-> r]} : a \in AccountIds, r \in Roles}

\* req.body of PUT /users/:id
Patches ==
  { [displayName |-> "n2"],
    [displayName |-> "n2", role |-> "admin"],
    [email |-> "e9", isAdmin |-> TRUE] }

Logins == 1..MaxLogins

\* req.user of the callback: the GitHub profile.  emails is {} when the
\* profile carries no address.
LoginProfiles ==
  { [id |-> "gh-a2", emails |-> {"a2@example.com"}, displayName |-> "n1"],
    [id |-> "gh-9", emails |-> {"new@example.com"}, displayName |-> "n1"],
    [id |-> "gh-9", emails |-> {"New@example.com"}, displayName |-> "n1"],
    [id |-> "gh-8", emails |-> {}, displayName |-> "n1"] }

\* the schema's `lowercase: true` setter on email
Lower(e) == IF e = "New@example.com" THEN "new@example.com" ELSE e

\* the _id the driver gives the document of login l
NewAccountId(l) == "n" \o ToString(l)

\* req.user of a request made under the session of a login: passport stores
\* the GitHub profile itself, whose id is the GitHub id and which has no role.
SessionPrincipal(profile) == {[id |-> profile.id, role |-> NoStatus]}

\* The cast of findById's argument: the 24-digit _id values, which neither the
\* token "me" nor a GitHub id is.
IsObjectId(id) == id \in AccountIds \cup {"a3"} \cup {NewAccountId(l) : l \in Logins}

\* User.findById: the set holding the document, or {} for null.
UserFindById(id) == IF id \in DOMAIN users THEN {users[id]} ELSE {}

\* user.role: the schema declares no path `role`, so the getter is undefined.
UserRole(user) == IF "role" \in DOMAIN user THEN user.role ELSE NoStatus

\* An updateUser request between its two database calls.
IdleUpdate == [pc |-> "idle", principal |-> {}, targetId |-> "none", updates |-> <<>>]

\* target: the _id of the account the handler had looked up when it answered.
UserRespond(op, principal, found, outcome, reason, data) ==
  uresp' = [op |-> op, principal |-> principal, target |-> {x._id : x \in found},
            outcome |-> outcome, reason |-> reason, data |-> data]

ownerOrAdminOnlyAdmin(principal, user) == principal.role = "admin"

\* req.user.role !== "admin" && user._id.toString() !== req.user.id  (negated)
ownerOrAdmin(principal, user) == principal.role = "admin" \/ user._id = principal.id

\* GET /users/:id
getUserById(principal, param) ==
  /\ LET me == param = "me"
         noSession == principal = {}
         found == IF me /\ noSession THEN {}
                  ELSE UserFindById(IF me THEN (CHOOSE p \in principal : TRUE).id ELSE param)
     IN  IF me /\ noSession
         THEN UserRespond("getUserById", principal, found, "Unauthenticated", "session", {})
         ELSE IF me /\ ~IsObjectId((CHOOSE p \in principal : TRUE).id)
         THEN UserRespond("getUserById", principal, {}, "Unexpected", "CastError", {})
         ELSE IF found = {}
         THEN UserRespond("getUserById", principal, found, "NotFound", "user", {})
         ELSE IF /\ ~noSession
                 /\ ~ownerOrAdmin(CHOOSE p \in principal : TRUE, CHOOSE x \in found : TRUE)
         THEN UserRespond("getUserById", principal, found, "Forbidden", "profile", {})
         ELSE UserRespond("getUserById", principal, found, "ok", "none", found)
  /\ UNCHANGED <<shopVars, orderVars, now, users, ucalls, dcalls, lcalls>>

roleChangeRefusedNever(principal, body, user) == FALSE

\* req.body.role && req.user.role !== "admin" && req.body.role !== user.role
roleChangeRefused(principal, body, user) ==
  /\ "role" \in DOMAIN body
  /\ body.role \notin {"", NoStatus}
  /\ principal.role # "admin"
  /\ body.role # UserRole(user)

allowedUpdatesWithEmail == {"displayName", "profilePicture", "phoneNumber", "address", "email"}

allowedUpdates == {"displayName", "profilePicture", "phoneNumber", "address"}

\* the updates object handed to findByIdAndUpdate
buildUpdates(principal, body, t) ==
  LET keys == IF principal.role # "admin"
              THEN DOMAIN body \cap allowedUpdates
              ELSE DOMAIN body \ {"googleId"}
  IN  [k \in keys \cup {"updatedAt"} |-> IF k = "updatedAt" THEN t ELSE body[k]]

\* PUT /users/:id up to and including User.findById and the checks behind it.
\* A request that gets past the checks is held in u until its write.
updateUserLookup(u, principal, param, body) ==
  /\ IF principal = {}
     THEN /\ IF param = "me"
             THEN UserRespond("updateUser", principal, {}, "Unexpected", "TypeError", {})
             ELSE UserRespond("updateUser", principal, {}, "Unauthenticated", "session", {})
          /\ UNCHANGED ucalls
     ELSE LET p == CHOOSE q \in principal : TRUE
              targetId == IF param = "me" THEN p.id ELSE param
              found == UserFindById(targetId)
          IN  IF ~IsObjectId(targetId)
              THEN /\ UserRespond("updateUser", principal, {}, "Unexpected", "CastError", {})
                   /\ UNCHANGED ucalls
              ELSE IF found = {}
              THEN /\ UserRespond("updateUser", principal, found, "NotFound", "user", {})
                   /\ UNCHANGED ucalls
              ELSE IF ~ownerOrAdmin(p, CHOOSE x \in found : TRUE)
              THEN /\ UserRespond("updateUser", principal, found, "Forbidden", "profile", {})
                   /\ UNCHANGED ucalls
              ELSE IF roleChangeRefused(p, body, CHOOSE x \in found : TRUE)
              THEN /\ UserRespond("updateUser", principal, found, "Forbidden", "role", {})
                   /\ UNCHANGED ucalls
              ELSE /\ ucalls[u].pc = "idle"
                   /\ \A v \in 1..MaxUpdates : v < u => ucalls[v].pc # "idle"
                   /\ ucalls' = [ucalls EXCEPT ![u] =
                                   [pc |-> "write", principal |-> principal,
                                    targetId |-> targetId,
                                    updates |-> buildUpdates(p, body, now)]]
                   /\ UNCHANGED uresp
  /\ UNCHANGED <<shopVars, orderVars, now, users, dcalls, lcalls>>

\* $set of the keys the schema declares; the others are dropped (strict mode).
ApplyUpdates(user, updates) ==
  [k \in DOMAIN user |->
     IF k \in DOMAIN updates /\ k # "_id" THEN updates[k] ELSE user[k]]

DuplicateKeyUnchecked(id, doc) == FALSE

\* The unique indexes on email and githubId: another account holds a value of doc.
DuplicateKey(id, doc) ==
  \E a \in DOMAIN users \ {id} :
    users[a].email = doc.email \/ users[a].githubId = doc.githubId

\* User.findByIdAndUpdate(targetId, updates, { new: true }); res.status(200),
\* or next(error) when the write is refused by a unique index.
updateUserWrite(u) ==
  /\ ucalls[u].pc = "write"
  /\ LET id == ucalls[u].targetId
         found == UserFindById(id)
         after == ApplyUpdates(CHOOSE x \in found : TRUE, ucalls[u].updates)
     IN  IF found = {}
         THEN /\ users' = users
              /\ UserRespond("updateUser", ucalls[u].principal, found, "ok", "none", {})
         ELSE IF DuplicateKey(id, after)
         THEN /\ users' = users
              /\ UserRespond("updateUser", ucalls[u].principal, found, "Unexpected",
                             "DuplicateKey", {})
         ELSE /\ users' = [users EXCEPT ![id] = after]
              /\ UserRespond("updateUser", ucalls[u].principal, found, "ok", "none", {after})
  /\ ucalls' = [ucalls EXCEPT ![u] = IdleUpdate]
  /\ UNCHANGED <<shopVars, orderVars, now, dcalls, lcalls>>

(* ------------------------------------------------------------------ *)
(* Users: deleteUser                                                   *)
(* ------------------------------------------------------------------ *)
Deletes == 1..MaxDeletes

\* A deleteUser request between its database calls; user: the _id of the
\* document read (the handler uses nothing else of it afterwards).
IdleDelete == [pc |-> "idle", principal |-> {}, user |-> {}]

\* middleware isAuthenticated in front of deleteUser: passes a request that
\* carries a session, whatever its role.
isAuthenticated(principal) == principal # {}

\* user._id.toString() === req.user.id && req.user.role === "admin"
deletesOwnAdminAccount(principal, user) ==
  user._id = principal.id /\ principal.role = "admin"

\* User.countDocuments({ role: "admin" }).  The schema declares no path
\* `role` (accounts carry isAdmin), so no stored document has one: the query
\* layer either drops the unknown key and counts every document (strictQuery)
\* or keeps it and matches none.  Both results are possible builds.
countDocumentsRoleAdmin == {0, Cardinality(DOMAIN users)}

\* DELETE /users/:id up to and including User.findById.
deleteUserLookup(d, principal, param) ==
  /\ IF ~isAuthenticated(principal)
     THEN /\ UserRespond("deleteUser", principal, {}, "Unauthenticated", "session", {})
          /\ UNCHANGED dcalls
     ELSE IF param = "me"        \* findById("me"): CastError, next(error)
     THEN /\ UserRespond("deleteUser", principal, {}, "Unexpected", "CastError", {})
          /\ UNCHANGED dcalls
     ELSE LET p == CHOOSE q \in principal : TRUE
              found == UserFindById(param)
          IN  IF found = {}
              THEN /\ UserRespond("deleteUser", principal, found, "NotFound", "user", {})
                   /\ UNCHANGED dcalls
              ELSE /\ dcalls[d].pc = "idle"
                   /\ \A e \in Deletes : e < d => dcalls[e].pc # "idle"
                   /\ dcalls' = [dcalls EXCEPT ![d] =
                                   [pc |-> IF deletesOwnAdminAccount(p, CHOOSE x \in found : TRUE)
                                           THEN "count" ELSE "delete",
                                    principal |-> principal,
                                    user |-> {x._id : x \in found}]]
                   /\ UNCHANGED uresp
  /\ UNCHANGED <<shopVars, orderVars, now, users, ucalls, lcalls>>

\* await User.countDocuments(...); if (adminCount <= 1) return 400
deleteUserCount(d) ==
  /\ dcalls[d].pc = "count"
  /\ \E adminCount \in countDocumentsRoleAdmin :
       IF adminCount <= 1
       THEN /\ UserRespond("deleteUser", dcalls[d].principal,
                           {[_id |-> a] : a \in dcalls[d].user},
                           "LastAdminProtected", "count", {})
            /\ dcalls' = [dcalls EXCEPT ![d] = IdleDelete]
       ELSE /\ dcalls' = [dcalls EXCEPT ![d].pc = "delete"]
            /\ UNCHANGED uresp
  /\ UNCHANGED <<shopVars, orderVars, now, users, ucalls, lcalls>>

deleteUserDeleteCascade(d) ==
  /\ dcalls[d].pc = "delete"
  /\ users' = [a \in DOMAIN users \ dcalls[d].user |-> users[a]]
  /\ orders' = [k \in {j \in DOMAIN orders : orders[j].user \notin dcalls[d].user} |-> orders[k]]
  /\ UserRespond("deleteUser", dcalls[d].principal, {[_id |-> a] : a \in dcalls[d].user},
                 "ok", "none", {})
  /\ dcalls' = [dcalls EXCEPT ![d] = IdleDelete]
  /\ UNCHANGED <<catalog, nextId, calls, resp, origin, now, ucalls, lcalls, shopVars>>

\* await user.deleteOne(); res.status(200).  Deleting a document that is
\* already gone deletes nothing and still answers 200.
deleteUserDelete(d) ==
  /\ dcalls[d].pc = "delete"
  /\ users' = [a \in DOMAIN users \ dcalls[d].user |-> users[a]]
  /\ UserRespond("deleteUser", dcalls[d].principal, {[_id |-> a] : a \in dcalls[d].user},
                 "ok", "none", {})
  /\ dcalls' = [dcalls EXCEPT ![d] = IdleDelete]
  /\ UNCHANGED <<shopVars, orderVars, now, ucalls, lcalls>>

(* ------------------------------------------------------------------ *)
(* Users: createUser (called by the login callback)                    *)
(* ------------------------------------------------------------------ *)
\* A request to /github/callback.  outcome: how createUser ended ("TypeError"
\* and "DuplicateKey" are the errors it hands to next); redirected: the
\* callback has called res.redirect, which it does as soon as createUser
\* returns its promise, whatever becomes of it.
IdleLogin == [pc |-> "idle", githubUser |-> {}, outcome |-> "none", redirected |-> FALSE]

LoginDone(outcome) ==
  [pc |-> "done", githubUser |-> {}, outcome |-> outcome, redirected |-> TRUE]

\* User.findOne({ email }): the filter is cast with the schema's setters.
UserFindOneByEmail(e) == {users[a] : a \in {b \in DOMAIN users : users[b].email = Lower(e)}}

\* const [email] = githubUser.emails; await User.findOne({ email: email.value })
createUserFind(l, profile) ==
  /\ lcalls[l].pc = "idle"
  /\ \A k \in Logins : k < l => lcalls[k].pc # "idle"
  /\ lcalls' = [lcalls EXCEPT ![l] =
                  IF profile.emails = {} THEN LoginDone("TypeError")
                  ELSE IF UserFindOneByEmail(CHOOSE e \in profile.emails : TRUE) # {}
                  THEN LoginDone("existing")
                  ELSE [pc |-> "save", githubUser |-> {profile}, outcome |-> "none",
                        redirected |-> TRUE]]
  /\ UNCHANGED <<shopVars, orderVars, now, users, ucalls, uresp, dcalls>>

\* new User({ githubId, email, displayName, isAdmin: false })
newUserDoc(l, profile, t) ==
  [_id |-> NewAccountId(l), githubId |-> profile.id,
   email |-> Lower(CHOOSE e \in profile.emails : TRUE),
   displayName |-> profile.displayName, isAdmin |-> FALSE, updatedAt |-> t]

\* await new User({...}).save(); a unique index may refuse the insert.
createUserSave(l) ==
  /\ lcalls[l].pc = "save"
  /\ LET doc == newUserDoc(l, CHOOSE g \in lcalls[l].githubUser : TRUE, now)
     IN  IF DuplicateKey(doc._id, doc)
         THEN /\ users' = users
              /\ lcalls' = [lcalls EXCEPT ![l] = LoginDone("DuplicateKey")]
         ELSE /\ users' = users @@ (doc._id :> doc)
              /\ lcalls' = [lcalls EXCEPT ![l] = LoginDone("created")]
  /\ UNCHANGED <<shopVars, orderVars, now, ucalls, uresp, dcalls>>

(* ------------------------------------------------------------------ *)
(* Categories                                                          *)
(* ------------------------------------------------------------------ *)
CategoryIds == 1..MaxCategories    \* req.params.id

\* req.body of POST /categories; name "" stands for a body without a name.
CategoryBodies == {[name |-> n, description |-> "d1"] : n \in {"", "roses", "tulips"}}

\* req.body of PUT /categories/:id
CategoryUpdates == {[name |-> "tulips"], [description |-> "d2"]}

\* Category.findById: the set holding the document, or {} for null.
CategoryFindById(id) == IF id \in DOMAIN categories THEN {categories[id]} ELSE {}

\* res.json / res.status(200).json, or next(error)
CategoryRespond(op, id, outcome, reason, data) ==
  cresp' = [op |-> op, id |-> id, outcome |-> outcome, reason |-> reason, data |-> data]

\* The unique index on name: another category holds it.
CategoryNameTaken(id, name) ==
  \E c \in DOMAIN categories \ {id} : categories[c].name = name

\* GET /categories/:id
getCategoryById(id) ==
  /\ IF CategoryFindById(id) = {}
     THEN CategoryRespond("getCategoryById", id, "NotFound", "category", {})
     ELSE CategoryRespond("getCategoryById", id, "ok", "none", CategoryFindById(id))
  /\ UNCHANGED <<orderVars, now, userVars, categories, nextCat, wishlistVars>>

\* POST /categories: new Category({ name, description, createAt }).save()
createCategory(body) ==
  /\ nextCat <= MaxCategories
  /\ LET newCategory == [_id |-> nextCat, name |-> body.name, description |-> body.description]
     IN  IF body.name = ""
         THEN /\ CategoryRespond("createCategory", 0, "Unexpected", "ValidationError", {})
              /\ UNCHANGED <<categories, nextCat>>
         ELSE IF CategoryNameTaken(nextCat, body.name)
         THEN /\ CategoryRespond("createCategory", 0, "Unexpected", "DuplicateKey", {})
              /\ UNCHANGED <<categories, nextCat>>
         ELSE /\ categories' = categories @@ (nextCat :> newCategory)
              /\ nextCat' = nextCat + 1
              /\ CategoryRespond("createCategory", nextCat, "ok", "none", {newCategory})
  /\ UNCHANGED <<orderVars, now, userVars, wishlistVars>>

\* PUT /categories/:id: Category.findByIdAndUpdate(categoryId, body, { new: true });
\* res.json(updateCategory), which is null when no category has the id.
updateCategoryById(id, body) ==
  /\ LET found == CategoryFindById(id)
         after == [k \in DOMAIN categories[id] |->
                     IF k \in DOMAIN body THEN body[k] ELSE categories[id][k]]
     IN  IF found = {}
         THEN /\ CategoryRespond("updateCategoryById", id, "ok", "none", {})
              /\ UNCHANGED categories
         ELSE IF CategoryNameTaken(id, after.name)
         THEN /\ CategoryRespond("updateCategoryById", id, "Unexpected", "DuplicateKey", {})
              /\ UNCHANGED categories
         ELSE /\ categories' = [categories EXCEPT ![id] = after]
              /\ CategoryRespond("updateCategoryById", id, "ok", "none", {after})
  /\ UNCHANGED <<orderVars, now, userVars, nextCat, wishlistVars>>

\* DELETE /categories/:id: Category.deleteOne({ _id: categoryId });
\* res.json(deleteCategory), the driver's result with its deletedCount.
deleteCategoryById(id) ==
  /\ categories' = [c \in DOMAIN categories \ {id} |-> categories[c]]
  /\ CategoryRespond("deleteCategoryById", id, "ok", "none",
                     {[deletedCount |-> IF id \in DOMAIN categories THEN 1 ELSE 0]})
  /\ UNCHANGED <<orderVars, now, userVars, nextCat, wishlistVars>>

(* ------------------------------------------------------------------ *)
(* Wishlists                                                           *)
(* ------------------------------------------------------------------ *)
WishCalls == 1..MaxWish

\* req.user.id of the wishlist routes: the caller's account.
WishUsers == AccountIds

\* A wishlist request between its database calls.  doc: the document read by
\* findOne; flowers: the array the request is about to store.
IdleWish ==
  [pc |-> "idle", op |-> "none", user |-> "none", flowerId |-> "none", doc |-> {},
   flowers |-> <<>>]

WishRespond(op, user, outcome, reason, data) ==
  wresp' = [op |-> op, user |-> user, outcome |-> outcome, reason |-> reason, data |-> data]

WishFree(w) ==
  /\ wcalls[w].pc = "idle"
  /\ \A k \in WishCalls : k < w => wcalls[k].pc # "idle"

\* Wishlist.findOne({ user }): the first document of the user, or {} for null.
WishlistFindOne(user) ==
  LET ids == {i \in DOMAIN wishlists : wishlists[i].user = user}
  IN  IF ids = {} THEN {}
      ELSE {wishlists[CHOOSE i \in ids : \A j \in ids : i <= j]}

\* wishlist.flowers.includes(flowerId)
Includes(flowers, flowerId) == \E k \in DOMAIN flowers : flowers[k] = flowerId

\* wishlist.flowers.filter((id) => id.toString() !== flowerId)
Without(flowers, flowerId) == SelectSeq(flowers, LAMBDA f : f # flowerId)

\* Requests that write stop once the user's document has been saved MaxVersion times.
WishlistWritesLeft(user) == \A d \in WishlistFindOne(user) : d.v < MaxVersion

\* The unique index on user: a wishlist of the user is stored.
UniqueUserTaken(user) == \E i \in DOMAIN wishlists : wishlists[i].user = user

\* GET /wishlist up to and including Wishlist.findOne
getWishlist(w, user) ==
  /\ WishFree(w)
  /\ IF WishlistFindOne(user) # {}
     THEN /\ WishRespond("getWishlist", user, "ok", "none", WishlistFindOne(user))
          /\ UNCHANGED wcalls
     ELSE /\ wcalls' = [wcalls EXCEPT ![w] =
                          [IdleWish EXCEPT !.pc = "create", !.op = "getWishlist",
                                           !.user = user]]
          /\ UNCHANGED wresp
  /\ UNCHANGED <<orderVars, now, userVars, categoryVars, wishlists>>

\* Wishlist.create({ user, flowers }) of getWishlist and addFlowerToWishlist
wishlistCreate(w) ==
  /\ wcalls[w].pc = "create"
  /\ LET call == wcalls[w]
         id == Cardinality(DOMAIN wishlists) + 1
         doc == [_id |-> id, user |-> call.user, flowers |-> call.flowers, v |-> 0,
                 updatedAt |-> now]
     IN  IF UniqueUserTaken(call.user)
         THEN /\ WishRespond(call.op, call.user, "Unexpected", "DuplicateKey", {})
              /\ wcalls' = [wcalls EXCEPT ![w] = IdleWish]
              /\ UNCHANGED wishlists
         ELSE /\ wishlists' = wishlists @@ (id :> doc)
              /\ IF call.op = "getWishlist"
                 THEN /\ WishRespond(call.op, call.user, "created", "none", {doc})
                      /\ wcalls' = [wcalls EXCEPT ![w] = IdleWish]
                 ELSE /\ wcalls' = [wcalls EXCEPT ![w].pc = "refind"]
                      /\ UNCHANGED wresp
  /\ UNCHANGED <<orderVars, now, userVars, categoryVars>>

\* POST /wishlist/:flowerId up to and including Flower.findById
addFlowerToWishlist(w, user, flowerId) ==
  /\ WishFree(w)
  /\ WishlistWritesLeft(user)
  /\ IF FlowerFindById(catalog, flowerId) = {}
     THEN /\ WishRespond("addFlowerToWishlist", user, "NotFound", "flower", {})
          /\ UNCHANGED wcalls
     ELSE /\ wcalls' = [wcalls EXCEPT ![w] =
                          [IdleWish EXCEPT !.pc = "find", !.op = "addFlowerToWishlist",
                                           !.user = user, !.flowerId = flowerId]]
          /\ UNCHANGED wresp
  /\ UNCHANGED <<orderVars, now, userVars, categoryVars, wishlists>>

\* Wishlist.findOne of addFlowerToWishlist and the includes check behind it
addFlowerFind(w) ==
  /\ wcalls[w].pc = "find"
  /\ LET call == wcalls[w]
         found == WishlistFindOne(call.user)
     IN  IF found = {}
         THEN /\ wcalls' = [wcalls EXCEPT ![w].pc = "create", ![w].flowers = <<call.flowerId>>]
              /\ UNCHANGED wresp
         ELSE IF Includes((CHOOSE d \in found : TRUE).flowers, call.flowerId)
         THEN /\ WishRespond(call.op, call.user, "BadRequest", "AlreadyInWishlist", {})
              /\ wcalls' = [wcalls EXCEPT ![w] = IdleWish]
         ELSE /\ wcalls' = [wcalls EXCEPT ![w].pc = "push", ![w].doc = found]
              /\ UNCHANGED wresp
  /\ UNCHANGED <<orderVars, now, userVars, categoryVars, wishlists>>

\* wishlist.flowers.push(flowerId); wishlist.save(): a $push on the stored
\* array, which does not compare the document's version.
wishlistPush(w) ==
  /\ wcalls[w].pc = "push"
  /\ LET call == wcalls[w]
         id == (CHOOSE d \in call.doc : TRUE)._id
     IN  /\ wishlists' = [wishlists EXCEPT ![id].flowers = Append(@, call.flowerId),
                                           ![id].v = @ + 1,
                                           ![id].updatedAt = now]
         /\ wcalls' = [wcalls EXCEPT ![w].pc = "refind"]
  /\ UNCHANGED <<orderVars, now, userVars, categoryVars, wresp>>

\* DELETE /wishlist/:flowerId up to and including Wishlist.findOne and the filter
removeFlowerFromWishlist(w, user, flowerId) ==
  /\ WishFree(w)
  /\ WishlistWritesLeft(user)
  /\ LET found == WishlistFindOne(user)
         kept == Without((CHOOSE d \in found : TRUE).flowers, flowerId)
     IN  IF found = {}
         THEN /\ WishRespond("removeFlowerFromWishlist", user, "NotFound", "wishlist", {})
              /\ UNCHANGED wcalls
         ELSE IF Len(kept) = Len((CHOOSE d \in found : TRUE).flowers)
         THEN /\ WishRespond("removeFlowerFromWishlist", user, "NotFound", "flower", {})
              /\ UNCHANGED wcalls
         ELSE /\ wcalls' = [wcalls EXCEPT ![w] =
                              [pc |-> "set", op |-> "removeFlowerFromWishlist", user |-> user,
                               flowerId |-> flowerId, doc |-> found, flowers |-> kept]]
              /\ UNCHANGED wresp
  /\ UNCHANGED <<orderVars, now, userVars, categoryVars, wishlists>>

\* DELETE /wishlist/clear up to and including Wishlist.findOne
clearWishlist(w, user) ==
  /\ WishFree(w)
  /\ WishlistWritesLeft(user)
  /\ LET found == WishlistFindOne(user)
     IN  IF found = {}
         THEN /\ WishRespond("clearWishlist", user, "NotFound", "wishlist", {})
              /\ UNCHANGED wcalls
         ELSE /\ wcalls' = [wcalls EXCEPT ![w] =
                              [pc |-> "set", op |-> "clearWishlist", user |-> user,
                               flowerId |-> "none", doc |-> found, flowers |-> <<>>]]
              /\ UNCHANGED wresp
  /\ UNCHANGED <<orderVars, now, userVars, categoryVars, wishlists>>

\* wishlist.flowers = ...; wishlist.save(): a $set of the whole array, which
\* is refused (VersionError) when the stored version is no longer the one
\* read; an array left as it was read is not written and not compared.
wishlistSet(w) ==
  /\ wcalls[w].pc = "set"
  /\ LET call == wcalls[w]
         read == CHOOSE d \in call.doc : TRUE
         id == read._id
         modified == call.flowers # read.flowers
     IN  IF modified /\ wishlists[id].v # read.v
         THEN /\ WishRespond(call.op, call.user, "Unexpected", "VersionError", {})
              /\ wcalls' = [wcalls EXCEPT ![w] = IdleWish]
              /\ UNCHANGED wishlists
         ELSE /\ wishlists' = [wishlists EXCEPT
                                 ![id].flowers = IF modified THEN call.flowers ELSE @,
                                 ![id].v = IF modified THEN @ + 1 ELSE @,
                                 ![id].updatedAt = now]
              /\ IF call.op = "clearWishlist"
                 THEN /\ WishRespond(call.op, call.user, "ok", "none",
                                     {[read EXCEPT !.flowers = <<>>, !.updatedAt = now,
                                                   !.v = IF modified THEN @ + 1 ELSE @]})
                      /\ wcalls' = [wcalls EXCEPT ![w] = IdleWish]
                 ELSE /\ wcalls' = [wcalls EXCEPT ![w].pc = "refind"]
                      /\ UNCHANGED wresp
  /\ UNCHANGED <<orderVars, now, userVars, categoryVars>>

\* the closing Wishlist.findOne(...).populate(...) and res.status(200)
wishlistRefind(w) ==
  /\ wcalls[w].pc = "refind"
  /\ WishRespond(wcalls[w].op, wcalls[w].user, "ok", "none", WishlistFindOne(wcalls[w].user))
  /\ wcalls' = [wcalls EXCEPT ![w] = IdleWish]
  /\ UNCHANGED <<orderVars, now, userVars, categoryVars, wishlists>>

(* ------------------------------------------------------------------ *)
(* Environment: catalog price changes, time                            *)
(* ------------------------------------------------------------------ *)
\* PUT /flowers/:id with a new price (flower controller)
SetPrice(f, p) ==
  /\ catalog[f].exists
  /\ catalog[f].price # p
  /\ catalog' = [catalog EXCEPT ![f].price = p]
  /\ UNCHANGED <<orders, nextId, calls, resp, now, origin, userVars, shopVars>>

\* DELETE /flowers/:id (flower controller)
DeleteFlower(f) ==
  /\ catalog[f].exists
  /\ catalog' = [catalog EXCEPT ![f].exists = FALSE]
  /\ UNCHANGED <<orders, nextId, calls, resp, now, origin, userVars, shopVars>>

Tick ==
  /\ now < MaxClock
  /\ now' = now + 1
  /\ UNCHANGED <<orderVars, userVars, shopVars>>

(* ------------------------------------------------------------------ *)
(* Specifications                                                      *)
(* ------------------------------------------------------------------ *)
Init ==
  /\ catalog = [f \in FlowerIds |-> [exists |-> f = "f1", price |-> 1]]
  /\ orders = <<>>
  /\ origin = <<>>
  /\ nextId = 1
  /\ calls = [c \in Calls |-> IdleCall]
  /\ resp = [op |-> "none", id |-> 0, status |-> NoStatus, outcome |-> "none", data |-> {},
             prev |-> NoStatus]
  /\ now = 0
  /\ users = [a \in AccountIds |->
                [_id |-> a, githubId |-> "gh-" \o a, email |-> a \o "@example.com",
                 displayName |-> "n1", isAdmin |-> a = "a1", updatedAt |-> 0]]
  /\ ucalls = [u \in 1..MaxUpdates |-> IdleUpdate]
  /\ uresp = [op |-> "none", principal |-> {}, target |-> {},
               outcome |-> "none", reason |-> "none", data |-> {}]
  /\ dcalls = [d \in Deletes |-> IdleDelete]
  /\ lcalls = [l \in Logins |-> IdleLogin]
  /\ categories = <<>>
  /\ nextCat = 1
  /\ cresp = [op |-> "none", id |-> 0, outcome |-> "none", reason |-> "none", data |-> {}]
  /\ wishlists = <<>>
  /\ wcalls = [w \in WishCalls |-> IdleWish]
  /\ wresp = [op |-> "none", user |-> "none", outcome |-> "none", reason |-> "none",
               data |-> {}]

StatusInputs == validStatuses \cup {"refunded", NoStatus}

\* Pricing: every item list, interleaved with a status update and deletes.
PricingNext ==
  \/ \E c \in Calls, body \in OrderBodies(ItemLists, {NoStatus}) : createOrderStart(c, body)
  \/ \E c \in Calls : createOrderLookup(c)
  \/ \E c \in Calls : createOrderSave(c)
  \/ \E f \in FlowerIds, p \in Prices : SetPrice(f, p)
  \/ \E id \in OrderIds, s \in {"shipped"} : updateOrderStatus(id, s)
  \/ \E id \in OrderIds : deleteOrder(id)

PricingSpec == Init /\ [][PricingNext]_vars

\* Lifecycle: one-item orders, every status input, a running clock.
SimpleLists == {<<[flower |-> "f1", quantity |-> 1]>>}

LifecycleNext ==
  \/ \E c \in Calls, body \in OrderBodies(SimpleLists, {NoStatus, "shipped"}) :
       createOrderStart(c, body)
  \/ \E c \in Calls : createOrderLookup(c)
  \/ \E c \in Calls : createOrderSave(c)
  \/ \E id \in OrderIds, s \in StatusInputs : updateOrderStatus(id, s)
  \/ \E id \in OrderIds : deleteOrder(id)
  \/ Tick

LifecycleSpec == Init /\ [][LifecycleNext]_vars

UserNext ==
  \/ \E p \in Principals, id \in ParamIds : getUserById(p, id)
  \/ \E u \in 1..MaxUpdates, p \in Principals, id \in ParamIds, body \in Patches :
       updateUserLookup(u, p, id, body)
  \/ \E u \in 1..MaxUpdates : updateUserWrite(u)

UserSpec == Init /\ [][UserNext]_vars

\* Accounts: deletion by every principal, next to requests without a session
\* and an administrator's updates of the identity fields.
AccountPatches == {[isAdmin |-> TRUE], [githubId |-> "gh-x", googleId |-> "g-x"]}
AdminA1 == {[id |-> "a1", role |-> "admin"]}
AdminA2 == {[id |-> "a2", role |-> "admin"]}

AccountNext ==
  \/ \E id \in ParamIds : getUserById({}, id)
  \/ \E u \in 1..MaxUpdates, p \in {{}, AdminA1}, id \in ParamIds, body \in AccountPatches :
       updateUserLookup(u, p, id, body)
  \/ \E u \in 1..MaxUpdates : updateUserWrite(u)
  \/ \E d \in Deletes, p \in Principals, id \in ParamIds : deleteUserLookup(d, p, id)
  \/ \E d \in Deletes : deleteUserCount(d)
  \/ \E d \in Deletes : deleteUserDelete(d)

AccountSpec == Init /\ [][AccountNext]_vars

\* Logins: account creation next to an administrator's updates and deletions.
LoginPatches == {[email |-> "new@example.com"]}

LoginNext ==
  \/ \E l \in Logins, g \in LoginProfiles : createUserFind(l, g)
  \/ \E l \in Logins : createUserSave(l)
  \/ \E u \in 1..MaxUpdates, id \in AccountIds, body \in LoginPatches :
       updateUserLookup(u, AdminA1, id, body)
  \/ \E u \in 1..MaxUpdates : updateUserWrite(u)
  \/ \E d \in Deletes, id \in AccountIds : deleteUserLookup(d, AdminA1, id)
  \/ \E d \in Deletes : deleteUserCount(d)
  \/ \E d \in Deletes : deleteUserDelete(d)

LoginSpec == Init /\ [][LoginNext]_vars

\* Orders next to everything else that touches the catalog and the accounts.
FrameLists ==
  { <<[flower |-> "f1", quantity |-> 1]>>,
    <<[flower |-> "f1", quantity |-> 1], [flower |-> "f1", quantity |-> 2]>> }

FrameNext ==
  \/ \E c \in Calls, body \in OrderBodies(FrameLists, {NoStatus}) : createOrderStart(c, body)
  \/ \E c \in Calls : createOrderLookup(c)
  \/ \E c \in Calls : createOrderSave(c)
  \/ \E id \in OrderIds, s \in {"shipped"} : updateOrderStatus(id, s)
  \/ \E id \in OrderIds : deleteOrder(id)
  \/ \E f \in FlowerIds, p \in Prices : SetPrice(f, p)
  \/ \E f \in FlowerIds : DeleteFlower(f)
  \/ \E d \in Deletes, id \in UserRefs : deleteUserLookup(d, AdminA2, id)
  \/ \E d \in Deletes : deleteUserCount(d)
  \/ \E d \in Deletes : deleteUserDelete(d)

FrameSpec == Init /\ [][FrameNext]_vars

\* Sessions: requests for "me" and for an explicit id under the session of a
\* login, next to the logins and an administrator's updates.
HasAccount(profile) == \E a \in DOMAIN users : users[a].githubId = profile.id

MeParams == {"me", "a2", NewAccountId(1)}

MePatches == {[displayName |-> "n2"]}

MeNext ==
  \/ \E l \in Logins, g \in LoginProfiles : createUserFind(l, g)
  \/ \E l \in Logins : createUserSave(l)
  \/ \E g \in LoginProfiles, id \in MeParams :
       HasAccount(g) /\ getUserById(SessionPrincipal(g), id)
  \/ \E u \in 1..MaxUpdates, g \in LoginProfiles, id \in MeParams, body \in MePatches :
       HasAccount(g) /\ updateUserLookup(u, SessionPrincipal(g), id, body)
  \/ \E u \in 1..MaxUpdates, id \in AccountIds, body \in MePatches :
       updateUserLookup(u, AdminA1, id, body)
  \/ \E u \in 1..MaxUpdates : updateUserWrite(u)
  \/ Tick

MeSpec == Init /\ [][MeNext]_vars

\* Categories: every handler of the category controller.
CategoryNext ==
  \/ \E id \in CategoryIds : getCategoryById(id)
  \/ \E body \in CategoryBodies : createCategory(body)
  \/ \E id \in CategoryIds, body \in CategoryUpdates : updateCategoryById(id, body)
  \/ \E id \in CategoryIds : deleteCategoryById(id)

CategorySpec == Init /\ [][CategoryNext]_vars

\* Wishlists: every handler of the wishlist controller, for two users.
WishlistNext ==
  \/ \E w \in WishCalls, user \in WishUsers : getWishlist(w, user)
  \/ \E w \in WishCalls : wishlistCreate(w)
  \/ \E w \in WishCalls, user \in WishUsers, f \in FlowerIds : addFlowerToWishlist(w, user, f)
  \/ \E w \in WishCalls : addFlowerFind(w)
  \/ \E w \in WishCalls : wishlistPush(w)
  \/ \E w \in WishCalls, user \in WishUsers, f \in FlowerIds :
       removeFlowerFromWishlist(w, user, f)
  \/ \E w \in WishCalls, user \in WishUsers : clearWishlist(w, user)
  \/ \E w \in WishCalls : wishlistSet(w)
  \/ \E w \in WishCalls : wishlistRefind(w)

WishlistSpec == Init /\ [][WishlistNext]_vars

Next ==
  \/ PricingNext \/ LifecycleNext \/ UserNext \/ AccountNext \/ LoginNext \/ FrameNext
  \/ MeNext \/ CategoryNext \/ WishlistNext

Spec == Init /\ [][Next]_vars

(* ------------------------------------------------------------------ *)
(* Properties                                                          *)
(* ------------------------------------------------------------------ *)
\* The enumeration OrderStatus of the data model.
OrderStatus == {"pending", "processing", "shipped", "delivered", "cancelled"}

RECURSIVE SumItems(_)
SumItems(items) ==
  IF items = <<>> THEN 0
  ELSE items[1].quantity * items[1].priceAtPurchase + SumItems(Tail(items))

HasUnknown(items) == \E k \in DOMAIN items : ~catalog[items[k].flower].exists
HasNonPositive(items) == \E k \in DOMAIN items : items[k].quantity <= 0

\* C1: in every reachable state every persisted order has
\* totalAmount = sum over its line items of quantity * priceAtPurchase.
C1_TotalIsSumOfItems ==
  \A id \in DOMAIN orders : orders[id].totalAmount = SumItems(orders[id].items)

\* An order of two lines priced at different catalog prices, already shipped.
C1_Witness ==
  \E id \in DOMAIN orders :
    /\ Len(orders[id].items) = 2
    /\ orders[id].items[1].quantity = 2
    /\ orders[id].items[1].priceAtPurchase # orders[id].items[2].priceAtPurchase
    /\ orders[id].status = "shipped"
    /\ orders[id].totalAmount = SumItems(orders[id].items)

\* C2: a createOrder whose item list names a product with no catalog entry
\* can only end with ProductNotFound, and no step of it changes the order store.
C2_UnknownProductAborts ==
  [][\A c \in Calls :
       (calls[c].pc = "loop" /\ HasUnknown(calls[c].body.items) /\ calls'[c] # calls[c])
         => /\ orders' = orders
            /\ calls'[c].pc = "done" => calls'[c].outcome = "ProductNotFound"]_vars

\* The unknown product came second, after a first item had been priced.
C2_Witness ==
  \E c \in Calls :
    /\ calls[c].pc = "done"
    /\ calls[c].outcome = "ProductNotFound"
    /\ calls[c].i = 2
    /\ calls[c].id = 0

\* C3 (as claimed): a createOrder whose item list has a quantity <= 0 ends
\* with InvalidQuantity and persists no order, here in the case the claim
\* stresses, where every product of the list is in the catalog.
C3_NonPositiveQuantityRejected ==
  [][\A c \in Calls :
       (/\ calls[c].pc = "loop"
        /\ HasNonPositive(calls[c].body.items)
        /\ ~HasUnknown(calls[c].body.items)
        /\ calls'[c].pc = "done")
         => /\ calls'[c].outcome = "InvalidQuantity"
            /\ orders' = orders]_vars

\* C4: each line item's catalog price is read exactly once during createOrder
\* and the persisted priceAtPurchase is the value that lookup returned.
C4_PriceSnapshot ==
  \A id \in DOMAIN orders :
    /\ Len(origin[id].reads) = Len(orders[id].items)
    /\ \A k \in DOMAIN orders[id].items :
         origin[id].reads[k] =
           {[_id |-> orders[id].items[k].flower,
             price |-> orders[id].items[k].priceAtPurchase]}

\* Two lines of the same flower carry different prices, and the first differs
\* from the catalog: the price changed between a lookup and the save.
C4_Witness ==
  \E id \in DOMAIN orders :
    /\ Len(orders[id].items) = 2
    /\ orders[id].items[1].flower = orders[id].items[2].flower
    /\ orders[id].items[1].priceAtPurchase # orders[id].items[2].priceAtPurchase
    /\ orders[id].createdAt = orders[id].updatedAt
    /\ orders[id].status = "pending"

\* C5: the order store never shows a partial order: every stored order belongs
\* to exactly one completed createOrder and holds a line item for every entry
\* of that request, with the final total.
C5_CreateIsAtomic ==
  /\ \A id \in DOMAIN orders :
       /\ Cardinality({c \in Calls : calls[c].pc = "done" /\ calls[c].outcome = "ok"
                                      /\ calls[c].id = id}) = 1
       /\ Len(orders[id].items) = Len(origin[id].body.items)
       /\ orders[id].totalAmount =
            SumItems([k \in DOMAIN origin[id].body.items |->
                        [quantity |-> origin[id].body.items[k].quantity,
                         priceAtPurchase |-> (CHOOSE f \in origin[id].reads[k] : TRUE).price]])
  /\ \A c \in Calls : calls[c].pc = "loop" => calls[c].id \notin DOMAIN orders

\* One request is half-way through its list while the other's two-line order
\* is already stored.
C5_Witness ==
  \E c \in Calls, id \in DOMAIN orders :
    /\ calls[c].pc = "loop"
    /\ Len(calls[c].body.items) = 2
    /\ Len(calls[c].orderItems) = 1
    /\ Len(orders[id].items) = 2
    /\ Cardinality(DOMAIN orders) = 1

\* C6: an order enters the store with status pending and createdAt = updatedAt,
\* whatever the request body held.
C6_CreatedPending ==
  [][\A id \in DOMAIN orders' \ DOMAIN orders :
       /\ orders'[id].status = "pending"
       /\ orders'[id].createdAt = orders'[id].updatedAt]_vars

\* The body asked for status shipped; the stored order is pending.
C6_Witness ==
  \E id \in DOMAIN orders :
    /\ origin[id].body.status = "shipped"
    /\ orders[id].status = "pending"
    /\ orders[id].createdAt = orders[id].updatedAt
    /\ orders[id].createdAt > 0

\* C7: updateOrderStatus on an existing order with a status of the enumeration
\* succeeds, sets status and updatedAt (not earlier than before) and changes
\* nothing else of that order and no other order.
C7_StatusUpdateFrame ==
  [][\A id \in OrderIds, s \in OrderStatus :
       (id \in DOMAIN orders /\ updateOrderStatus(id, s))
         => /\ resp'.outcome = "ok"
            /\ DOMAIN orders' = DOMAIN orders
            /\ orders'[id].status = s
            /\ orders'[id].updatedAt = now
            /\ orders'[id].updatedAt >= orders[id].updatedAt
            /\ orders'[id].user = orders[id].user
            /\ orders'[id].items = orders[id].items
            /\ orders'[id].totalAmount = orders[id].totalAmount
            /\ orders'[id].shippingAddress = orders[id].shippingAddress
            /\ orders'[id].createdAt = orders[id].createdAt
            /\ \A o \in DOMAIN orders \ {id} : orders'[o] = orders[o]]_vars

\* A pending order was shipped later than it was created, next to another order.
C7_Witness ==
  /\ resp.op = "updateOrderStatus"
  /\ resp.outcome = "ok"
  /\ resp.status = "shipped"
  /\ resp.prev = "pending"
  /\ resp.id \in DOMAIN orders
  /\ orders[resp.id].status = "shipped"
  /\ orders[resp.id].updatedAt > orders[resp.id].createdAt
  /\ Cardinality(DOMAIN orders) = 2

\* C8: a status outside the enumeration (or none) is answered InvalidStatus and
\* changes no order; every stored order's status is one of the five values.
C8_InvalidStatusRejected ==
  /\ [](\A id \in DOMAIN orders : orders[id].status \in OrderStatus)
  /\ [][\A id \in OrderIds, s \in StatusInputs \ OrderStatus :
          updateOrderStatus(id, s)
            => /\ resp'.outcome = "InvalidStatus"
               /\ orders' = orders]_vars

\* A request without a status was refused while the order existed.
C8_Witness ==
  /\ resp.op = "updateOrderStatus"
  /\ resp.status = NoStatus
  /\ resp.outcome = "InvalidStatus"
  /\ resp.id \in DOMAIN orders
  /\ orders[resp.id].status = "processing"

\* C9: no transition guard: an existing order in any status s accepts an
\* update to any status t of the enumeration.
C9_AnyTransitionAccepted ==
  [][\A id \in OrderIds, s \in OrderStatus, t \in OrderStatus :
       (id \in DOMAIN orders /\ orders[id].status = s /\ updateOrderStatus(id, t))
         => /\ resp'.outcome = "ok"
            /\ orders'[id].status = t]_vars

\* delivered -> pending has been accepted.
C9_Witness ==
  /\ resp.op = "updateOrderStatus"
  /\ resp.outcome = "ok"
  /\ resp.prev = "delivered"
  /\ resp.status = "pending"
  /\ resp.id \in DOMAIN orders
  /\ orders[resp.id].status = "pending"

\* C10: with a session and an existing target account, getUserById and
\* updateUser let an admin through for every target and a non-admin exactly
\* when the target is the principal's own account; a non-admin asking for
\* another account is answered Forbidden, gets no account data, and no
\* account changes.
C10_ProfileAuthorization ==
  /\ [](/\ (uresp.principal # {} /\ uresp.target # {})
            => LET p == CHOOSE q \in uresp.principal : TRUE
                   t == CHOOSE a \in uresp.target : TRUE
                   allowed == p.role = "admin" \/ p.id = t
               IN  /\ ~allowed => (uresp.outcome = "Forbidden" /\ uresp.data = {})
                   /\ allowed => ~(uresp.outcome = "Forbidden" /\ uresp.reason = "profile")
                   /\ (allowed /\ uresp.op = "getUserById")
                        => (uresp.outcome = "ok" /\ uresp.data = {users[t]})
        /\ \A u \in DOMAIN ucalls :
             ucalls[u].pc = "write"
               => LET p == CHOOSE q \in ucalls[u].principal : TRUE
                  IN  p.role = "admin" \/ p.id = ucalls[u].targetId)
  /\ [][uresp'.outcome = "Forbidden" => users' = users]_vars

\* Customer a2 was refused an update of a1 while an admin's update of a1 is
\* between its lookup and its write.
C10_Witness ==
  /\ uresp.op = "updateUser"
  /\ uresp.outcome = "Forbidden"
  /\ uresp.reason = "profile"
  /\ uresp.principal = {[id |-> "a2", role |-> "customer"]}
  /\ uresp.target = {"a1"}
  /\ uresp.data = {}
  /\ \E u \in DOMAIN ucalls :
       /\ ucalls[u].pc = "write"
       /\ ucalls[u].targetId = "a1"
       /\ ucalls[u].principal = {[id |-> "a2", role |-> "admin"]}

(* ---- accounts ---- *)
UserOps == {"getUserById", "updateUser", "deleteUser"}

\* The accounts holding the administrator flag.
AdminAccounts == {a \in DOMAIN users : users[a].isAdmin}

\* C11 (as claimed): without a principal, getProfile, updateProfile and
\* deleteAccount answer Unauthenticated for every target id and hand out no
\* account data, and no request without a principal gets as far as a write.
C11_AbsentPrincipalUnauthenticated ==
  /\ (uresp.op \in UserOps /\ uresp.principal = {})
       => (uresp.outcome = "Unauthenticated" /\ uresp.data = {})
  /\ \A u \in DOMAIN ucalls : ucalls[u].pc # "idle" => ucalls[u].principal # {}
  /\ \A d \in DOMAIN dcalls : dcalls[d].pc # "idle" => dcalls[d].principal # {}

\* C12 (as claimed): a deleteAccount by a non-admin principal on an existing
\* account ends with Forbidden and leaves the account store as it was.
C12_DeleteIsAdminOnly ==
  [][\A d \in Deletes :
       (/\ dcalls[d].pc # "idle"
        /\ dcalls'[d].pc = "idle"
        /\ (CHOOSE q \in dcalls[d].principal : TRUE).role # "admin")
         => /\ uresp'.outcome = "Forbidden"
            /\ users' = users]_vars

\* C13 (as claimed): an admin principal deleting their own administrator
\* account is refused with LastAdminProtected, and nothing is deleted, when
\* that account is the only administrator; with two or more administrators
\* the request succeeds and removes exactly that account.
C13_LastAdminGuard ==
  [][\A d \in Deletes :
       (/\ dcalls[d].pc # "idle"
        /\ dcalls'[d].pc = "idle"
        /\ LET p == CHOOSE q \in dcalls[d].principal : TRUE
           IN  /\ p.role = "admin"
               /\ dcalls[d].user = {p.id}
               /\ p.id \in AdminAccounts)
         => IF Cardinality(AdminAccounts) = 1
            THEN /\ uresp'.outcome = "LastAdminProtected"
                 /\ users' = users
            ELSE /\ uresp'.outcome = "ok"
                 /\ users' = [a \in DOMAIN users \ dcalls[d].user |-> users[a]]]_vars

\* C14 (as claimed): whatever deleteAccount requests run, and however they
\* interleave, an administrator account remains.
C14_AnAdminRemains == AdminAccounts # {}

\* The role the data model gives an account, read from the stored flag.
AccountRole(user) == IF user.isAdmin THEN "admin" ELSE "customer"

NonAdmin(principal) == principal # {} /\ (CHOOSE q \in principal : TRUE).role # "admin"

\* The principal of the updateUser request whose lookup this step is: the
\* one answered, or the one now held in slot u.
LookupPrincipals(u) ==
  IF uresp' = uresp THEN {ucalls'[u].principal} ELSE {uresp'.principal}

\* C15: an updateProfile by a non-admin whose patch names a role other than
\* the target's is answered Forbidden and nothing of the patch is written; a
\* non-admin's patch of displayName alone goes through to the write, which
\* succeeds and changes displayName and updatedAt of the target only.
C15_RoleChangeRefused ==
  /\ [][(users' = users /\ (uresp' = uresp \/ uresp'.op = "updateUser"))
          => \A u \in 1..MaxUpdates : \A p \in LookupPrincipals(u) :
               NonAdmin(p)
                 => \A id \in ParamIds, body \in Patches :
                      LET target == IF id = "me" THEN (CHOOSE q \in p : TRUE).id ELSE id
                      IN  (target \in DOMAIN users /\ updateUserLookup(u, p, id, body))
                            => /\ ("role" \in DOMAIN body
                                     /\ body.role # AccountRole(users[target]))
                                    => /\ uresp'.outcome = "Forbidden"
                                       /\ uresp'.op = "updateUser"
                                       /\ users' = users
                                       /\ ucalls' = ucalls
                               /\ (DOMAIN body = {"displayName"}
                                     /\ (CHOOSE q \in p : TRUE).id = target)
                                    => /\ ucalls'[u].pc = "write"
                                       /\ ucalls'[u].targetId = target
                                       /\ ucalls'[u].updates.displayName = body.displayName]_vars
  /\ [][\A u \in 1..MaxUpdates :
          (/\ ucalls[u].pc = "write"
           /\ ucalls'[u].pc = "idle"
           /\ NonAdmin(ucalls[u].principal)
           /\ DOMAIN ucalls[u].updates = {"displayName", "updatedAt"}
           /\ ucalls[u].targetId \in DOMAIN users)
            => LET id == ucalls[u].targetId
               IN  /\ uresp'.outcome = "ok"
                   /\ DOMAIN users' = DOMAIN users
                   /\ users'[id].displayName = ucalls[u].updates.displayName
                   /\ \A k \in DOMAIN users[id] \ {"displayName", "updatedAt"} :
                        users'[id][k] = users[id][k]
                   /\ \A a \in DOMAIN users \ {id} : users'[a] = users[a]]_vars

\* Customer a2 asked for the admin role together with a new displayName on
\* their own account: refused, the displayName is still the old one.
C15_Witness ==
  /\ uresp.op = "updateUser"
  /\ uresp.outcome = "Forbidden"
  /\ uresp.reason = "role"
  /\ uresp.principal = {[id |-> "a2", role |-> "customer"]}
  /\ uresp.target = {"a2"}
  /\ users["a2"].displayName = "n1"
  /\ users["a2"].isAdmin = FALSE
  /\ users["a1"].displayName = "n2"

\* The fields a profile update by a non-admin may touch.
ProfileFields == {"displayName", "profilePicture", "phoneNumber", "address", "updatedAt"}

\* C16: no step of an updateProfile by a non-admin principal changes a field
\* outside displayName, profilePicture, phoneNumber, address and updatedAt of
\* any account, so no sequence of them does; role and email stay.
C16_NonAdminFieldFilter ==
  [][\A u \in 1..MaxUpdates :
       (ucalls[u].pc = "write" /\ NonAdmin(ucalls[u].principal) /\ ucalls'[u] # ucalls[u])
         => /\ DOMAIN users' = DOMAIN users
            /\ \A a \in DOMAIN users :
                 /\ DOMAIN users'[a] = DOMAIN users[a]
                 /\ \A k \in DOMAIN users[a] \ ProfileFields : users'[a][k] = users[a][k]
                 /\ AccountRole(users'[a]) = AccountRole(users[a])
                 /\ users'[a].email = users[a].email]_vars

\* Customer a2 sent a patch of email and isAdmin for their own account: the
\* answer is 200 and the returned account has the old email and no admin flag.
C16_Witness ==
  /\ uresp.op = "updateUser"
  /\ uresp.outcome = "ok"
  /\ uresp.principal = {[id |-> "a2", role |-> "customer"]}
  /\ uresp.target = {"a2"}
  /\ uresp.data = {users["a2"]}
  /\ users["a2"].displayName = "n1"
  /\ users["a2"].email = "a2@example.com"
  /\ users["a2"].isAdmin = FALSE

\* C17 (as claimed): no updateProfile, by an admin or a non-admin, changes the
\* githubId an account was created with.
C17_GithubIdImmutable ==
  [][\A u \in 1..MaxUpdates :
       (ucalls[u].pc = "write" /\ ucalls'[u] # ucalls[u])
         => \A a \in DOMAIN users \cap DOMAIN users' :
              users'[a].githubId = users[a].githubId]_vars

\* C18: at most one account exists per email in every reachable state, and a
\* login whose email already has an account writes nothing: createUser ends
\* at its lookup, or, when the account appeared after the lookup, at a save
\* the unique index refuses.
C18_LoginIdempotent ==
  /\ [](\A a, b \in DOMAIN users : users[a].email = users[b].email => a = b)
  /\ [][\A l \in Logins :
          /\ \A g \in LoginProfiles :
               (/\ g.emails # {}
                /\ \E a \in DOMAIN users : users[a].email = Lower(CHOOSE e \in g.emails : TRUE)
                /\ createUserFind(l, g))
                 => (lcalls'[l].pc = "done" /\ users' = users)
          /\ (/\ lcalls[l].pc = "save"
              /\ lcalls'[l].pc = "done"
              /\ \E a \in DOMAIN users, g \in lcalls[l].githubUser :
                   users[a].email = Lower(CHOOSE e \in g.emails : TRUE))
               => users' = users]_vars

\* Two first logins for the same address ran side by side: one created the
\* account, the other's insert was refused, and one account holds the address.
C18_Witness ==
  /\ \E l, k \in Logins :
       /\ lcalls[l].pc = "done" /\ lcalls[l].outcome = "created"
       /\ lcalls[k].pc = "done" /\ lcalls[k].outcome = "DuplicateKey"
  /\ Cardinality({a \in DOMAIN users : users[a].email = "new@example.com"}) = 1
  /\ \A a \in DOMAIN users : users[a].email = "new@example.com" => a \notin AccountIds

\* C19: from its creation until its deletion an order keeps its items
\* sequence and its totalAmount, whatever else happens to it, to the catalog,
\* to other orders and to the accounts.
C19_ItemsImmutable ==
  [][\A id \in DOMAIN orders \cap DOMAIN orders' :
       /\ orders'[id].items = orders[id].items
       /\ orders'[id].totalAmount = orders[id].totalAmount]_vars

\* A shipped two-line order priced at 1 outlives a price change, the deletion
\* of its flower and the deletion of its owner's account.
C19_Witness ==
  \E id \in DOMAIN orders :
    /\ orders[id].status = "shipped"
    /\ Len(orders[id].items) = 2
    /\ orders[id].items[1].priceAtPurchase = 1
    /\ orders[id].items[2].priceAtPurchase = 1
    /\ orders[id].totalAmount = 3
    /\ catalog["f1"].price = 2
    /\ ~catalog["f1"].exists
    /\ orders[id].user \notin DOMAIN users

\* C20: an order leaves the store only in a step that is a successful
\* deleteOrder of its own id; every other step, deleteUser of its owner and
\* the deletion of its flower included, keeps the set of stored orders.
C20_OnlyDeleteOrderRemoves ==
  [][\A id \in DOMAIN orders \ DOMAIN orders' :
       /\ resp'.op = "deleteOrder"
       /\ resp'.id = id
       /\ resp'.outcome = "ok"
       /\ DOMAIN orders' = DOMAIN orders \ {id}
       /\ users' = users
       /\ catalog' = catalog]_vars

\* The owner's account was deleted last, the flower is gone, and the owner's
\* order is still stored next to none other, one order having been deleted.
C20_Witness ==
  /\ uresp.op = "deleteUser"
  /\ uresp.outcome = "ok"
  /\ uresp.target \cap DOMAIN users = {}
  /\ ~catalog["f1"].exists
  /\ resp.op = "deleteOrder"
  /\ resp.outcome = "ok"
  /\ \E id \in DOMAIN orders : orders[id].user \in uresp.target

(* ---- orders, continued ---- *)
\* C21 (as claimed): for an id with no stored order updateOrderStatus answers
\* NotFound whatever the status, in or out of the enumeration, and creates
\* nothing.
C21_AbsentOrderAlwaysNotFound ==
  [][\A id \in OrderIds, s \in StatusInputs :
       (/\ id \notin DOMAIN orders
        /\ resp'.op = "updateOrderStatus"
        /\ resp'.id = id
        /\ updateOrderStatus(id, s))
         => /\ resp'.outcome = "NotFound"
            /\ orders' = orders]_vars

\* C21 (amended): the status is validated before the store is touched: for an
\* id with no stored order updateOrderStatus answers NotFound for every status
\* of the enumeration and InvalidStatus for every other, and creates nothing.
C21_AbsentOrderValidatedFirst ==
  [][\A id \in OrderIds, s \in StatusInputs :
       (/\ id \notin DOMAIN orders
        /\ resp'.op = "updateOrderStatus"
        /\ resp'.id = id
        /\ updateOrderStatus(id, s))
         => /\ resp'.outcome = IF s \in OrderStatus THEN "NotFound" ELSE "InvalidStatus"
            /\ orders' = orders]_vars

\* An update to a status outside the enumeration named an order that had been
\* deleted: the answer is InvalidStatus, not NotFound.
C21_Witness ==
  /\ resp.op = "updateOrderStatus"
  /\ resp.outcome = "InvalidStatus"
  /\ resp.status = "refunded"
  /\ resp.prev = NoStatus
  /\ resp.id < nextId
  /\ resp.id \notin DOMAIN orders

\* C22: deleteOrder of a stored order removes that order and nothing else
\* (other orders, accounts and catalog stay); deleteOrder of an absent id
\* answers NotFound and changes nothing; an order enters the store only under
\* a fresh id, so a deleted id stays absent and a second delete is NotFound.
C22_DeleteOrderFrame ==
  /\ [][\A id \in OrderIds :
          (resp'.op = "deleteOrder" /\ resp'.id = id /\ deleteOrder(id))
            => /\ users' = users
               /\ catalog' = catalog
               /\ IF id \in DOMAIN orders
                  THEN /\ resp'.outcome = "ok"
                       /\ DOMAIN orders' = DOMAIN orders \ {id}
                       /\ \A o \in DOMAIN orders' : orders'[o] = orders[o]
                  ELSE /\ resp'.outcome = "NotFound"
                       /\ orders' = orders]_vars
  /\ [][\A id \in DOMAIN orders' \ DOMAIN orders : id = nextId /\ nextId' > id]_vars

\* The second delete of order 1 was answered NotFound while order 2 is stored.
C22_Witness ==
  /\ resp.op = "deleteOrder"
  /\ resp.outcome = "NotFound"
  /\ resp.id = 1
  /\ nextId > 2
  /\ DOMAIN orders = {2}

\* An item list createOrder is meant to accept: not empty, every quantity at
\* least 1, every product in the catalog.
ValidItems(items) ==
  items # <<>> /\ ~HasNonPositive(items) /\ ~HasUnknown(items)

\* C23: a createOrder given a valid list of n entries ends by storing an order
\* of n line items, the k-th with the k-th entry's product and quantity, and
\* a totalAmount that is the sum of quantity * price read for that entry.
C23_ItemsInInputOrder ==
  [][\A c \in Calls :
       (calls[c].pc = "loop" /\ ValidItems(calls[c].body.items) /\ calls'[c].pc = "done")
         => /\ calls'[c].outcome = "ok"
            /\ calls'[c].id \in DOMAIN orders' \ DOMAIN orders
            /\ LET order == orders'[calls'[c].id]
                   items == calls[c].body.items
               IN  /\ Len(order.items) = Len(items)
                   /\ \A k \in DOMAIN items :
                        /\ order.items[k].flower = items[k].flower
                        /\ order.items[k].quantity = items[k].quantity
                        /\ calls[c].reads[k] = {[_id |-> items[k].flower,
                                                price |-> order.items[k].priceAtPurchase]}
                   /\ order.totalAmount =
                        SumItems([k \in DOMAIN items |->
                                    [quantity |-> items[k].quantity,
                                     priceAtPurchase |-> order.items[k].priceAtPurchase]])]_vars

\* Two entries of the same flower, quantity 2 then 1, stored as two lines in
\* that order.
C23_Witness ==
  \E id \in DOMAIN orders :
    /\ Len(orders[id].items) = 2
    /\ orders[id].items[1].flower = orders[id].items[2].flower
    /\ orders[id].items[1].quantity = 2
    /\ orders[id].items[2].quantity = 1
    /\ origin[id].body.items[1].quantity = 2
    /\ origin[id].body.items[2].quantity = 1

\* C24 (as claimed): every stored order has at least one line item and every
\* line item a quantity of at least 1.
C24_OrdersNonEmptyPositive ==
  \A id \in DOMAIN orders :
    /\ Len(orders[id].items) >= 1
    /\ \A k \in DOMAIN orders[id].items : orders[id].items[k].quantity >= 1

\* C28: an id that has been given out and is no longer in the store (its order
\* was deleted) never comes back, and an updateOrderStatus that reaches the
\* store for such an id is answered NotFound and stores nothing.
C28_NoResurrection ==
  [][\A id \in OrderIds :
       (id < nextId /\ id \notin DOMAIN orders)
         => /\ id \notin DOMAIN orders'
            /\ \A s \in OrderStatus :
                 (resp'.op = "updateOrderStatus" /\ resp'.id = id /\ updateOrderStatus(id, s))
                   => resp'.outcome = "NotFound"]_vars

\* Order 1 was shipped, then deleted, and a later update to delivered was
\* answered NotFound.
C28_Witness ==
  /\ resp.op = "updateOrderStatus"
  /\ resp.outcome = "NotFound"
  /\ resp.status = "delivered"
  /\ resp.id = 1
  /\ nextId > 1
  /\ 1 \notin DOMAIN orders

(* ---- accounts, continued ---- *)
\* The accounts whose stored identity is the one of the login's profile.
OwnAccounts(profile) == {a \in DOMAIN users : users[a].githubId = profile.id}

\* C25 (as claimed): under the session of a login whose account exists,
\* getProfile and updateProfile for "me" resolve to that account: the lookup
\* finds it and no other, and is not answered NotFound or with a failure.
C25_MeIsOwnAccount ==
  [][\A g \in LoginProfiles :
       OwnAccounts(g) # {} =>
         /\ (/\ uresp'.op = "getUserById"
             /\ uresp'.principal = SessionPrincipal(g)
             /\ getUserById(SessionPrincipal(g), "me"))
              => /\ uresp'.target = OwnAccounts(g)
                 /\ uresp'.outcome = "ok"
         /\ \A u \in 1..MaxUpdates, body \in MePatches :
              updateUserLookup(u, SessionPrincipal(g), "me", body)
                => /\ ucalls'[u].pc = "write"
                   /\ ucalls'[u].targetId \in OwnAccounts(g)]_vars

\* C29 (as claimed): an updateUser that answers success leaves the target
\* account in the store with the updates applied and returns that account.
C29_SuccessMeansStored ==
  [][\A u \in 1..MaxUpdates :
       (/\ ucalls[u].pc = "write"
        /\ ucalls'[u].pc = "idle"
        /\ uresp'.op = "updateUser"
        /\ uresp'.outcome = "ok")
         => LET id == ucalls[u].targetId
            IN  /\ id \in DOMAIN users'
                /\ \A k \in DOMAIN ucalls[u].updates \cap DOMAIN users'[id] :
                     users'[id][k] = ucalls[u].updates[k]
                /\ uresp'.data = {users'[id]}]_vars

\* The errors createUser passes to next(error).
LoginErrors == {"TypeError", "DuplicateKey"}

\* C26 (as claimed): a request to the login callback ends in one outcome: it
\* is never answered with the redirect while createUser hands an error to the
\* error handler for the same request.
C26_CallbackOneOutcome ==
  \A l \in Logins :
    lcalls[l].pc = "done" => ~(lcalls[l].redirected /\ lcalls[l].outcome \in LoginErrors)

(* ---- categories ---- *)
\* C27 (as claimed): updateCategoryById and deleteCategoryById of an id that
\* has no category answer NotFound and leave the categories as they are.
C27_AbsentCategoryNotFound ==
  [][\A id \in CategoryIds :
       id \notin DOMAIN categories =>
         /\ \A body \in CategoryUpdates :
              (cresp'.op = "updateCategoryById" /\ updateCategoryById(id, body))
                => cresp'.outcome = "NotFound" /\ categories' = categories
         /\ (cresp'.op = "deleteCategoryById" /\ deleteCategoryById(id))
              => cresp'.outcome = "NotFound" /\ categories' = categories]_vars

(* ---- wishlists ---- *)
NoDuplicates(flowers) ==
  \A j, k \in DOMAIN flowers : flowers[j] = flowers[k] => j = k

\* C30 (as claimed): in every reachable state each user has at most one
\* wishlist and no wishlist holds a flower twice; an addFlowerToWishlist that
\* finds the flower in the wishlist answers with an error and writes nothing.
C30_WishlistsUnique ==
  /\ [](/\ \A i, j \in DOMAIN wishlists : wishlists[i].user = wishlists[j].user => i = j
        /\ \A i \in DOMAIN wishlists : NoDuplicates(wishlists[i].flowers))
  /\ [][\A w \in WishCalls :
          (/\ wcalls[w].pc = "find"
           /\ wcalls'[w].pc # "find"
           /\ \E d \in WishlistFindOne(wcalls[w].user) : Includes(d.flowers, wcalls[w].flowerId))
            => /\ wresp'.outcome = "BadRequest"
               /\ wcalls'[w].pc = "idle"
               /\ wishlists' = wishlists]_vars
====
